---------------------------- MODULE Spec2Model ----------------------------
(***************************************************************************)
(* A model of comgo (src/comgo.go): the COMTRADE configuration decoder     *)
(* CFG.ReadCFG, the data loader CFG.ReadDAT and the sample extractor       *)
(* CFG.GetAnalogChannelData.                                               *)
(*                                                                         *)
(* Text is modelled at the level of characters: a string or byte slice is  *)
(* a sequence of one-character strings, a document is the sequence of its  *)
(* lines (what bytes.Split(content, "\n") returns, never empty).           *)
(* Floating-point fields carry integral decimal texts only (the alphabet   *)
(* has digits and signs, no '.', 'e', 'x', 'i', 'n' ...), so a float64 is  *)
(* modelled by the integer it equals.  A well-formed date block            *)
(* "dd/mm/yyyy" is the single character "U" and a well-formed time block   *)
(* "hh:mm:ss.ssssss" is "V" or "W".                                        *)
(***************************************************************************)
EXTENDS Integers, Sequences, FiniteSets, TLC

VARIABLES
    cfg,      \* the CFG value the caller owns
    err,      \* outcome of the last ReadCFG call on cfg ("unread" before any)
    lines,    \* the document (list of lines) given to the last ReadCFG call
    reads,    \* number of ReadCFG calls made on cfg
    dcap,     \* cap(cfg.DataFileContent): the length of its backing array
    got       \* outcome of the last call, when it was GetAnalogChannelData

vars == <<cfg, err, lines, reads, dcap, got>>

-----------------------------------------------------------------------------
(* Bounds of the model *)

MaxReads == 2
MaxA == 2
MaxD == 1
MaxBuf == 30

-----------------------------------------------------------------------------
(* Characters *)

SP == " "
TAB == "\t"
COMMA == ","
DigitChars == <<"0", "1", "2", "3", "4", "5", "6", "7", "8", "9">>

IsDigit(c) == \E i \in 1..10 : DigitChars[i] = c
DigitVal(c) == (CHOOSE i \in 1..10 : DigitChars[i] = c) - 1

\* unicode.IsSpace over the model's alphabet
IsSpace(c) == c \in {SP, TAB}

-----------------------------------------------------------------------------
(* Library functions the decoder calls, computed as the Go library does *)

\* the only element of a one-element set.  Only({e(x) : x \in {v}}) is e(v) with
\* v computed once, however often e uses it
Only(S) == CHOOSE x \in S : TRUE

\* strings.TrimSpace
TrimSpace(s) ==
    Only({IF keep = {} THEN <<>>
          ELSE SubSeq(s, CHOOSE i \in keep : \A j \in keep : i <= j,
                         CHOOSE i \in keep : \A j \in keep : i >= j)
          : keep \in {{i \in 1..Len(s) : ~IsSpace(s[i])}}})

\* bytes.Split(s, sep) for a one-byte separator: always at least one part.
\* cuts are the places of the separators, with both ends of s
Split(s, sep) ==
    Only({[k \in 1..(Cardinality(cuts) - 1) |->
             Only({SubSeq(s, from + 1, (CHOOSE i \in cuts : i > from /\
                                           \A j \in cuts : j > from => i <= j) - 1)
                   : from \in {i \in cuts : Cardinality({j \in cuts : j < i}) = k - 1}})]
          : cuts \in {{0, Len(s) + 1} \cup {i \in 1..Len(s) : s[i] = sep}}})

\* bytes.Join(parts, sep), from part k on
RECURSIVE JoinFrom(_, _, _)
JoinFrom(parts, sep, k) ==
    IF k > Len(parts) THEN <<>>
    ELSE IF k = Len(parts) THEN parts[k]
    ELSE parts[k] \o <<sep>> \o JoinFrom(parts, sep, k + 1)

\* bytes.Join(parts, sep)
Join(parts, sep) == JoinFrom(parts, sep, 1)

\* bytes.Contains(s, c) for a one-byte pattern
Contains(s, c) == \E i \in 1..Len(s) : s[i] = c

\* bytes.TrimSuffix(s, c) for a one-byte suffix
TrimSuffix(s, c) ==
    IF Len(s) > 0 /\ s[Len(s)] = c THEN SubSeq(s, 1, Len(s) - 1) ELSE s

\* strings.ToLower over the model's alphabet
ToLower(s) == [i \in 1..Len(s) |-> IF s[i] = "S" THEN "s" ELSE s[i]]

AllDigits(s) == Len(s) > 0 /\ \A i \in 1..Len(s) : IsDigit(s[i])

\* the value of the decimal digits s[1..k]
RECURSIVE DecValTo(_, _)
DecValTo(s, k) ==
    IF k = 0 THEN 0 ELSE DecValTo(s, k - 1) * 10 + DigitVal(s[k])

DecVal(s) == DecValTo(s, Len(s))

Pow2(n) == IF n = 8 THEN 256 ELSE 65536

\* strconv.ParseUint(s, 10, bitSize): digits only, no sign, value below 2^bitSize
ParseUint(s, bitSize) ==
    IF AllDigits(s) /\ DecVal(s) < Pow2(bitSize)
    THEN [ok |-> TRUE, v |-> DecVal(s)]
    ELSE [ok |-> FALSE, v |-> 0]

\* strconv.Atoi: an optional sign, then digits
Atoi(s) ==
    Only({IF AllDigits(body)
          THEN [ok |-> TRUE,
                v |-> IF Len(s) > 0 /\ s[1] = "-" THEN 0 - DecVal(body) ELSE DecVal(body)]
          ELSE [ok |-> FALSE, v |-> 0]
          : body \in {IF Len(s) > 0 /\ s[1] \in {"+", "-"} THEN Tail(s) ELSE s}})

\* strconv.ParseFloat(s, 64) on the integral decimal texts of the model
ParseFloat(s) == Atoi(s)

\* uint16(x) of an int: the value modulo 2^16
Uint16(x) == x % 65536

\* time.Parse(TimeFormat, s): s must be <date block>T<time block>
ParseTime(s) ==
    IF Len(s) = 3 /\ s[1] = "U" /\ s[2] = "T" /\ s[3] \in {"V", "W"}
    THEN [ok |-> TRUE, v |-> s]
    ELSE [ok |-> FALSE, v |-> <<>>]

\* ByteToString: the text with surrounding white space removed
ByteToString(b) == TrimSpace(b)

-----------------------------------------------------------------------------
(* The configuration model *)

\* a nil *ChannelA: every getter on it returns the zero value
NilChannelA ==
    [isNil |-> TRUE, ChannelTotal |-> 0, ChannelNumber |-> <<>>,
     ChannelNames |-> <<>>, ChannelPhases |-> <<>>, ChannelElements |-> <<>>,
     ChannelUnits |-> <<>>, ConversionFactors |-> [a |-> <<>>, b |-> <<>>],
     TimeFactors |-> <<>>, ValueMin |-> <<>>, ValueMax |-> <<>>,
     Primary |-> <<>>, Secondary |-> <<>>, IsSecondaryMeasurement |-> <<>>]

\* ChannelA{} with ConversionFactors = make(map[string][]float64)
NewChannelA == [NilChannelA EXCEPT !.isNil = FALSE]

\* a nil *ChannelD
NilChannelD ==
    [isNil |-> TRUE, ChannelTotal |-> 0, ChannelNumber |-> <<>>,
     ChannelNames |-> <<>>, ChannelPhases |-> <<>>, ChannelElements |-> <<>>,
     InitialState |-> <<>>]

\* ChannelD{}
NewChannelD == [NilChannelD EXCEPT !.isNil = FALSE]

\* NewCFG: CFG{}, every field at its zero value (the zero time is <<>>)
NewCFG ==
    [StationName |-> <<>>, RecordDeviceId |-> <<>>, RevisionYear |-> 0,
     ChannelNumber |-> 0, AnalogDetail |-> NilChannelA, DigitDetail |-> NilChannelD,
     LineFrequency |-> 0, SampleRateNum |-> 0, SampleDetail |-> <<>>,
     StartTime |-> <<>>, TriggerTime |-> <<>>, DataFileType |-> <<>>,
     TimeFactor |-> 0, TimeCode |-> <<>>, LocalCode |-> <<>>,
     DataFileContent |-> <<>>]

-----------------------------------------------------------------------------
(* Outcomes of ReadCFG *)

NoErr == "nil"
ErrFirstLine == "cfg format error: Missing info in first line"
ErrSecondLine == "cfg format error: Missing info in second line"
ErrMissingTag == "cfg format error: Missing either analog or digital stream numbers"
ErrAnalogRow == "cfg format error: missing info for analog channel"
ErrDigitRow == "cfg format error: missing info for digit channel"
ErrNum == "strconv: parsing error"
ErrTime == "time: parsing error"
\* a runtime panic (index out of range): the call does not return
Panic == "panic: index out of range"

ErrorValues == {ErrFirstLine, ErrSecondLine, ErrMissingTag, ErrAnalogRow,
                ErrDigitRow, ErrNum, ErrTime}

Ret(c, e) == [cfg |-> c, err |-> e]

\* lines[k] for a 0-based k
LineAt(ls, k) == ls[k + 1]
InRange(ls, k) == k < Len(ls)

-----------------------------------------------------------------------------
(* ReadCFG, section by section.  A section gets the CFG as the sections    *)
(* before it left it and returns it with the error the section returns     *)
(* (NoErr to go on).  t is tempList, the comma fields of the section's     *)
(* line.                                                                   *)

\* Processing first line, with its fields t
FirstFields(c, t) ==
    LET c1 == [c EXCEPT !.StationName = ByteToString(t[1]),
                        !.RecordDeviceId = ByteToString(t[2])]
        year == ParseUint(ByteToString(t[3]), 16)
    IN  IF Len(t) < 2 THEN Ret(c, ErrFirstLine)
        ELSE IF Len(t) > 2
             THEN IF ~year.ok THEN Ret(c1, ErrNum)
                  ELSE Ret([c1 EXCEPT !.RevisionYear = year.v], NoErr)
             ELSE Ret(c1, NoErr)

FirstLine(c, ls) == Only({FirstFields(c, t) : t \in {Split(LineAt(ls, 0), COMMA)}})

\* TagsPresent satisfied by either tag alone
TagsPresentEither(t) == Contains(t[2], "A") \/ Contains(t[3], "D")

\* the check that both channel-type tokens carry their tag
TagsPresent(t) == Contains(t[2], "A") /\ Contains(t[3], "D")

\* Processing second line, with its fields t
SecondFields(c, t) ==
    LET total == ParseUint(ByteToString(t[1]), 16)
        c1 == [c EXCEPT !.ChannelNumber = total.v]
        c2 == [c1 EXCEPT !.AnalogDetail = NewChannelA, !.DigitDetail = NewChannelD]
        na == ParseUint(TrimSuffix(TrimSpace(t[2]), "A"), 16)
        c3 == [c2 EXCEPT !.AnalogDetail.ChannelTotal = na.v]
        nd == ParseUint(TrimSuffix(TrimSpace(t[3]), "D"), 16)
        c4 == [c3 EXCEPT !.DigitDetail.ChannelTotal = nd.v]
    IN  IF Len(t) < 3 THEN Ret(c, ErrSecondLine)
        ELSE IF ~total.ok THEN Ret(c, ErrNum)
        ELSE IF ~TagsPresent(t) THEN Ret(c1, ErrMissingTag)
        ELSE IF ~na.ok THEN Ret(c2, ErrNum)
        ELSE IF ~nd.ok THEN Ret(c3, ErrNum)
        ELSE Ret(c4, NoErr)

SecondLine(c, ls) ==
    IF ~InRange(ls, 1) THEN Ret(c, Panic)
    ELSE Only({SecondFields(c, t) : t \in {Split(LineAt(ls, 1), COMMA)}})

\* the stored channel name of a row's name field
ChannelName(field) == ByteToString(Join(Split(field, SP), "_"))

\* one statement group of the analog loop body, for the row's fields t
AnalogStep(c, t, k) ==
    LET f == ByteToString(t[k + 1])
        i == Atoi(f)
        x == ParseFloat(f)
    IN  CASE k = 0 ->
               IF ~i.ok THEN Ret(c, ErrNum)
               ELSE Ret([c EXCEPT !.AnalogDetail.ChannelNumber = Append(@, Uint16(i.v))], NoErr)
          [] k = 1 ->
               Ret([c EXCEPT !.AnalogDetail.ChannelNames = Append(@, ChannelName(t[2]))], NoErr)
          [] k = 2 ->
               Ret([c EXCEPT !.AnalogDetail.ChannelPhases = Append(@, f)], NoErr)
          [] k = 3 ->
               Ret([c EXCEPT !.AnalogDetail.ChannelElements = Append(@, f)], NoErr)
          [] k = 4 ->
               Ret([c EXCEPT !.AnalogDetail.ChannelUnits = Append(@, f)], NoErr)
          [] k = 5 ->
               IF ~x.ok THEN Ret(c, ErrNum)
               ELSE Ret([c EXCEPT !.AnalogDetail.ConversionFactors.a = Append(@, x.v)], NoErr)
          [] k = 6 ->
               IF ~x.ok THEN Ret(c, ErrNum)
               ELSE Ret([c EXCEPT !.AnalogDetail.ConversionFactors.b = Append(@, x.v)], NoErr)
          [] k = 7 ->
               IF ~x.ok THEN Ret(c, ErrNum)
               ELSE Ret([c EXCEPT !.AnalogDetail.TimeFactors = Append(@, x.v)], NoErr)
          [] k = 8 ->
               IF ~i.ok THEN Ret(c, ErrNum)
               ELSE Ret([c EXCEPT !.AnalogDetail.ValueMin = Append(@, i.v)], NoErr)
          [] k = 9 ->
               IF ~i.ok THEN Ret(c, ErrNum)
               ELSE Ret([c EXCEPT !.AnalogDetail.ValueMax = Append(@, i.v)], NoErr)
          [] k = 10 ->
               IF Len(t) > 10 /\ x.ok
               THEN Ret([c EXCEPT !.AnalogDetail.Primary = Append(@, x.v)], NoErr)
               ELSE Ret(c, NoErr)
          [] k = 11 ->
               IF Len(t) > 11 /\ x.ok
               THEN Ret([c EXCEPT !.AnalogDetail.Secondary = Append(@, x.v)], NoErr)
               ELSE Ret(c, NoErr)
          [] OTHER ->
               IF Len(t) > 12
               THEN Ret([c EXCEPT !.AnalogDetail.IsSecondaryMeasurement =
                                      Append(@, ToLower(f) = <<"s">>)], NoErr)
               ELSE Ret(c, NoErr)

\* the statement groups k, k+1, ... of the analog loop body, until one returns
RECURSIVE AnalogSteps(_, _, _)
AnalogSteps(c, t, k) ==
    IF k > 12 THEN Ret(c, NoErr)
    ELSE Only({IF r.err # NoErr THEN r ELSE AnalogSteps(r.cfg, t, k + 1)
               : r \in {AnalogStep(c, t, k)}})

\* the body of the analog loop for the row's fields t
AnalogRow(c, t) ==
    IF Len(t) < 10 THEN Ret(c, ErrAnalogRow) ELSE AnalogSteps(c, t, 0)

\* Processing analog channels: iteration i and the ones after it
RECURSIVE AnalogLoop(_, _, _)
AnalogLoop(c, ls, i) ==
    IF i >= c.AnalogDetail.ChannelTotal THEN Ret(c, NoErr)
    ELSE IF ~InRange(ls, 2 + i) THEN Ret(c, Panic)
    ELSE Only({IF r.err # NoErr THEN r ELSE AnalogLoop(r.cfg, ls, i + 1)
               : r \in {AnalogRow(c, t) : t \in {Split(LineAt(ls, 2 + i), COMMA)}}})

AnalogChannels(c, ls) == AnalogLoop(c, ls, 0)

\* one statement group of the digit loop body, for the row's fields t
DigitStep(c, t, k) ==
    LET f == ByteToString(t[k + 1])
        i == Atoi(f)
        st == ParseUint(f, 8)
    IN  CASE k = 0 ->
               IF ~i.ok THEN Ret(c, ErrNum)
               ELSE Ret([c EXCEPT !.DigitDetail.ChannelNumber = Append(@, Uint16(i.v))], NoErr)
          [] k = 1 ->
               Ret([c EXCEPT !.DigitDetail.ChannelNames = Append(@, ChannelName(t[2]))], NoErr)
          [] k = 2 ->
               Ret([c EXCEPT !.DigitDetail.ChannelPhases = Append(@, f)], NoErr)
          [] k = 3 ->
               IF Len(t) > 3
               THEN Ret([c EXCEPT !.DigitDetail.ChannelElements = Append(@, f)], NoErr)
               ELSE Ret([c EXCEPT !.DigitDetail.ChannelElements = Append(@, <<>>)], NoErr)
          [] OTHER ->
               IF Len(t) > 4
               THEN IF ~st.ok THEN Ret(c, ErrNum)
                    ELSE Ret([c EXCEPT !.DigitDetail.InitialState = Append(@, st.v)], NoErr)
               ELSE Ret([c EXCEPT !.DigitDetail.InitialState = Append(@, 2)], NoErr)

\* DigitSteps that appends nothing for a column the row does not have
RECURSIVE DigitStepsNoDefault(_, _, _)
DigitStepsNoDefault(c, t, k) ==
    IF k > 4 \/ k >= Len(t) THEN Ret(c, NoErr)
    ELSE Only({IF r.err # NoErr THEN r ELSE DigitStepsNoDefault(r.cfg, t, k + 1)
               : r \in {DigitStep(c, t, k)}})

\* the statement groups k, k+1, ... of the digit loop body, until one returns
RECURSIVE DigitSteps(_, _, _)
DigitSteps(c, t, k) ==
    IF k > 4 THEN Ret(c, NoErr)
    ELSE Only({IF r.err # NoErr THEN r ELSE DigitSteps(r.cfg, t, k + 1)
               : r \in {DigitStep(c, t, k)}})

\* the body of the digit loop for the row's fields t
DigitRow(c, t) ==
    IF Len(t) < 3 THEN Ret(c, ErrDigitRow) ELSE DigitSteps(c, t, 0)

\* Processing digit channels: iteration i and the ones after it
RECURSIVE DigitLoop(_, _, _)
DigitLoop(c, ls, i) ==
    IF i >= c.DigitDetail.ChannelTotal THEN Ret(c, NoErr)
    ELSE IF ~InRange(ls, 2 + c.AnalogDetail.ChannelTotal + i) THEN Ret(c, Panic)
    ELSE Only({IF r.err # NoErr THEN r ELSE DigitLoop(r.cfg, ls, i + 1)
               : r \in {DigitRow(c, t) : t \in
                          {Split(LineAt(ls, 2 + c.AnalogDetail.ChannelTotal + i), COMMA)}}})

DigitChannels(c, ls) == DigitLoop(c, ls, 0)

\* k + chA.GetChannelTotal() + chD.GetChannelTotal(), computed in uint16
ChOff(c, k) == Uint16(k + c.AnalogDetail.ChannelTotal + c.DigitDetail.ChannelTotal)

\* k + cfg.GetSampleRateNum() + chA.GetChannelTotal() + chD.GetChannelTotal(), in uint16
RateOff(c, k) ==
    Uint16(k + c.SampleRateNum + c.AnalogDetail.ChannelTotal + c.DigitDetail.ChannelTotal)

\* Read line frequency (a non-negative value in the model's documents; uint16 of it)
LineFrequency(c, ls) ==
    IF ~InRange(ls, ChOff(c, 2)) THEN Ret(c, Panic)
    ELSE LET t == Split(LineAt(ls, ChOff(c, 2)), COMMA)
             x == ParseFloat(ByteToString(t[1]))
         IN  IF ~x.ok THEN Ret(c, ErrNum)
             ELSE Ret([c EXCEPT !.LineFrequency = Uint16(x.v)], NoErr)

\* CoerceRateNum without the coercion of 0
CoerceRateNumNone(n) == n

\* the sample-rate count stored for a declared count n
CoerceRateNum(n) == IF n = 0 THEN 1 ELSE n

\* Read sampling rate num
SampleRateNum(c, ls) ==
    IF ~InRange(ls, ChOff(c, 3)) THEN Ret(c, Panic)
    ELSE LET t == Split(LineAt(ls, ChOff(c, 3)), COMMA)
             n == ParseUint(ByteToString(t[1]), 16)
         IN  IF ~n.ok THEN Ret(c, ErrNum)
             ELSE Ret([c EXCEPT !.SampleRateNum = CoerceRateNum(n.v)], NoErr)

\* the body of the sample loop for the row's fields t
SampleRow(c, t) ==
    LET rate == ParseFloat(ByteToString(t[1]))
        number == ParseFloat(ByteToString(t[2]))
    IN  IF ~rate.ok THEN Ret(c, ErrNum)
        ELSE IF Len(t) < 2 THEN Ret(c, Panic)
        ELSE IF ~number.ok THEN Ret(c, ErrNum)
        ELSE Ret([c EXCEPT !.SampleDetail =
                     Append(@, [Rate |-> rate.v, Number |-> number.v])], NoErr)

\* Read Sample number: iteration i and the ones after it
RECURSIVE SampleLoop(_, _, _)
SampleLoop(c, ls, i) ==
    IF i >= c.SampleRateNum THEN Ret(c, NoErr)
    ELSE IF ~InRange(ls, 4 + i + c.AnalogDetail.ChannelTotal + c.DigitDetail.ChannelTotal)
         THEN Ret(c, Panic)
    ELSE Only({IF r.err # NoErr THEN r ELSE SampleLoop(r.cfg, ls, i + 1)
               : r \in {SampleRow(c, t) : t \in
                          {Split(LineAt(ls, 4 + i + c.AnalogDetail.ChannelTotal
                                              + c.DigitDetail.ChannelTotal), COMMA)}}})

SampleRates(c, ls) == SampleLoop(c, ls, 0)

\* Read start date and time
StartTime(c, ls) ==
    IF ~InRange(ls, RateOff(c, 4)) THEN Ret(c, Panic)
    ELSE LET t == Split(LineAt(ls, RateOff(c, 4)), COMMA)
             start == ParseTime(ByteToString(Join(t, "T")))
         IN  IF ~start.ok THEN Ret(c, ErrTime)
             ELSE Ret([c EXCEPT !.StartTime = start.v], NoErr)

\* Read trigger date and time
TriggerTime(c, ls) ==
    IF ~InRange(ls, RateOff(c, 5)) THEN Ret(c, Panic)
    ELSE LET t == Split(LineAt(ls, RateOff(c, 5)), COMMA)
             trigger == ParseTime(ByteToString(Join(t, "T")))
         IN  IF ~trigger.ok THEN Ret(c, ErrTime)
             ELSE Ret([c EXCEPT !.TriggerTime = trigger.v], NoErr)

\* Read dat content type
DataFileType(c, ls) ==
    IF ~InRange(ls, RateOff(c, 6)) THEN Ret(c, Panic)
    ELSE LET t == Split(LineAt(ls, RateOff(c, 6)), COMMA)
         IN  Ret([c EXCEPT !.DataFileType = ByteToString(t[1])], NoErr)

\* Read time multiplication factor
TimeFactor(c, ls) ==
    IF ~InRange(ls, RateOff(c, 7)) THEN Ret(c, Panic)
    ELSE LET t == Split(LineAt(ls, RateOff(c, 7)), COMMA)
             x == ParseFloat(ByteToString(t[1]))
         IN  IF t[1] # <<>>
             THEN IF ~x.ok THEN Ret(c, ErrNum)
                  ELSE Ret([c EXCEPT !.TimeFactor = x.v], NoErr)
             ELSE Ret([c EXCEPT !.TimeFactor = 1], NoErr)

\* the guard under which the optional line is read
HasOptionalLine(n, optionalLineNum) == n >= optionalLineNum

\* Read time_code, local_code, with the fields t of the optional line
TimeCodeFields(c, t) ==
    IF Len(t) = 2
    THEN Ret([c EXCEPT !.TimeCode = ByteToString(t[1]),
                       !.LocalCode = ByteToString(t[2])], NoErr)
    ELSE Ret(c, NoErr)

\* Read time_code, local_code
TimeCodes(c, ls) ==
    IF HasOptionalLine(Len(ls), RateOff(c, 8))
    THEN IF ~InRange(ls, RateOff(c, 8)) THEN Ret(c, Panic)
         ELSE Only({TimeCodeFields(c, t) : t \in {Split(LineAt(ls, RateOff(c, 8)), COMMA)}})
    ELSE Ret(c, NoErr)

\* section k of ReadCFG
Section(c, ls, k) ==
    CASE k = 1 -> FirstLine(c, ls)
      [] k = 2 -> SecondLine(c, ls)
      [] k = 3 -> AnalogChannels(c, ls)
      [] k = 4 -> DigitChannels(c, ls)
      [] k = 5 -> LineFrequency(c, ls)
      [] k = 6 -> SampleRateNum(c, ls)
      [] k = 7 -> SampleRates(c, ls)
      [] k = 8 -> StartTime(c, ls)
      [] k = 9 -> TriggerTime(c, ls)
      [] k = 10 -> DataFileType(c, ls)
      [] k = 11 -> TimeFactor(c, ls)
      [] OTHER -> TimeCodes(c, ls)

\* the sections k, k+1, ... in order, until one returns an error or panics
RECURSIVE Sections(_, _, _)
Sections(c, ls, k) ==
    IF k > 12 THEN Ret(c, NoErr)
    ELSE Only({IF r.err # NoErr THEN r ELSE Sections(r.cfg, ls, k + 1)
               : r \in {Section(c, ls, k)}})

\* ReadCFG on the CFG value c with the document's lines ls: the CFG as the call
\* leaves it and the error it returns (or the panic it ends in)
ReadCFG(c, ls) == Sections(c, ls, 1)

-----------------------------------------------------------------------------
(* The documents given to ReadCFG.  A document is built from a shape: the   *)
(* text of each of its lines.  The base shapes are well-formed documents    *)
(* with a analog rows, d digital rows and r rate rows; the set of documents *)
(* holds every base document, every base document with one line replaced by *)
(* a variant, and every proper prefix of a base document.                   *)

\* the decimal text of n >= 0
RECURSIVE Dec(_)
Dec(n) == IF n < 10 THEN <<DigitChars[n + 1]>>
          ELSE Dec(n \div 10) \o <<DigitChars[(n % 10) + 1]>>

Fields(fs) == Join(fs, COMMA)

CountLine(total, a, d) == Fields(<<total, a, d>>)

\* odd rows: 10 fields, a name with an inner space; even rows: 13 fields
AnalogRowText(i) ==
    IF i % 2 = 1
    THEN Fields(<<Dec(i), <<"L", " ", "A">>, <<"B">>, <<>>, <<"Q">>, Dec(i + 1), Dec(i),
                  <<"0">>, <<"-", "9">>, <<"9">> >>)
    ELSE Fields(<<Dec(i), <<"M">>, <<"B">>, <<>>, <<"Q">>, Dec(i + 1), <<"-">> \o Dec(i),
                  <<"0">>, <<"-", "9">>, <<"9">>, <<"5">>, <<"1">>, <<"s">> >>)

\* odd rows: 3 fields (no element, no initial state); even rows: 5 fields
DigitRowText(j) ==
    IF j % 2 = 1
    THEN Fields(<<Dec(j), <<"Q", " ", "R">>, <<"B">> >>)
    ELSE Fields(<<Dec(j), <<"Q">>, <<"B">>, <<"E">>, <<"1">> >>)

\* rate rows: (rate, sample count)
RateRowText(k) == IF k = 1 THEN <<"9", ",", "2">> ELSE <<"5", ",", "1">>

\* the rate-count line of a base document: r rate rows follow it; with zero set
\* (and r = 1) the line declares 0, the case the decoder coerces to 1
Base(a, d, r, zero) ==
    [hdr   |-> <<"S", ",", "D", ",", "1", "9", "9", "9">>,
     cnt   |-> CountLine(Dec(a + d), Dec(a) \o <<"A">>, Dec(d) \o <<"D">>),
     arows |-> [i \in 1..a |-> AnalogRowText(i)],
     drows |-> [j \in 1..d |-> DigitRowText(j)],
     freq  |-> <<"6", "0">>,
     nr    |-> IF zero THEN <<"0">> ELSE Dec(r),
     rrows |-> [k \in 1..r |-> RateRowText(k)],
     st    |-> <<"U", ",", "V">>,
     tr    |-> <<"U", ",", "W">>,
     ty    |-> <<"B">>,
     tf    |-> <<"1">>,
     opt   |-> << <<"+", "1", "h", ",", "L">>, <<>> >>]

BaseShapes ==
    {Base(a, d, 1, z) : a \in 0..MaxA, d \in 0..MaxD, z \in BOOLEAN}
    \cup {Base(a, d, 2, FALSE) : a \in 0..MaxA, d \in 0..MaxD}

\* the lines of a document of shape sh
Build(sh) ==
    <<sh.hdr, sh.cnt>> \o sh.arows \o sh.drows \o <<sh.freq, sh.nr>> \o sh.rrows
        \o <<sh.st, sh.tr, sh.ty, sh.tf>> \o sh.opt

HeaderVariants == {
    <<"S">>,   \* 'S'
    <<"S", ",", "D">>,   \* 'S,D'
    <<"S", ",", "D", ",", "Q">>,   \* 'S,D,Q'
    <<" ", "S", " ", ",", "\t", "D", ",", "1", "9", "9", "9">>,   \* ' S ,<TAB>D,1999'
    <<>>   \* ''
    }

\* second lines for a base with a analog and d digital rows
CountVariants(a, d) == {
    CountLine(Dec(a + d + 1), Dec(a) \o <<"A">>, Dec(d) \o <<"D">>),
    CountLine(Dec(a + d), Dec(a), Dec(d) \o <<"D">>),
    CountLine(Dec(a + d), Dec(a) \o <<"A">>, Dec(d)),
    CountLine(Dec(a + d), Dec(a), Dec(d)),
    CountLine(<<"Q">>, Dec(a), Dec(d) \o <<"D">>),
    CountLine(<<"Q">>, Dec(a) \o <<"A">>, Dec(d) \o <<"D">>),
    Fields(<<Dec(a + d), Dec(a)>>),
    Fields(<<Dec(a + d), Dec(a) \o <<"A">> >>),
    CountLine(Dec(a + d), <<"A">> \o Dec(a), Dec(d) \o <<"D">>),
    CountLine(Dec(a + d), <<SP>> \o Dec(a) \o <<"A", SP>>, <<SP>> \o Dec(d) \o <<"D">>),
    CountLine(Dec(a + d), Dec(a + 1) \o <<"A">>, Dec(d) \o <<"D">>),
    CountLine(Dec(a + d), Dec(a) \o <<"A">>, Dec(d + 1) \o <<"D">>)
    }

AnalogRowVariants == {
    <<"1", ",", "L", ",", "B", ",", ",", "Q", ",", "2", ",", "1", ",", "0", ",", "-", "9">>,   \* '1,L,B,,Q,2,1,0,-9'
    <<"Q", ",", "L", ",", "B", ",", ",", "Q", ",", "2", ",", "1", ",", "0", ",", "-", "9", ",", "9">>,   \* 'Q,L,B,,Q,2,1,0,-9,9'
    <<"1", ",", "L", ",", "B", ",", ",", "Q", ",", "Q", ",", "1", ",", "0", ",", "-", "9", ",", "9">>,   \* '1,L,B,,Q,Q,1,0,-9,9'
    <<"1", ",", "L", ",", "B", ",", ",", "Q", ",", "2", ",", "1", ",", "0", ",", "-", "9", ",", "Q">>,   \* '1,L,B,,Q,2,1,0,-9,Q'
    <<"1", ",", " ", "L", " ", "A", " ", ",", "B", ",", ",", "Q", ",", "2", ",", "1", ",", "0", ",", "-", "9", ",", "9">>,   \* '1, L A ,B,,Q,2,1,0,-9,9'
    <<"1", ",", "\t", "L", " ", "A", "\t", ",", " ", "B", " ", ",", ",", "Q", ",", "2", ",", "1", ",", "0", ",", "-", "9", ",", "9">>,   \* '1,<TAB>L A<TAB>, B ,,Q,2,1,0,-9,9'
    <<"1", ",", "L", " ", " ", "A", ",", "B", ",", ",", "Q", ",", "2", ",", "1", ",", "0", ",", "-", "9", ",", "9", ",", "Q">>,   \* '1,L  A,B,,Q,2,1,0,-9,9,Q'
    <<"1", ",", "L", ",", "B", ",", ",", "Q", ",", "2", ",", "1", ",", "0", ",", "-", "9", ",", "9", ",", "5", ",", "1", ",", "S">>,   \* '1,L,B,,Q,2,1,0,-9,9,5,1,S'
    <<"1", ",", "L", ",", "B", ",", ",", "Q", ",", "2", ",", "1", ",", "0", ",", "-", "9", ",", "9", ",", "5", ",", "Q", ",", "P">>,   \* '1,L,B,,Q,2,1,0,-9,9,5,Q,P'
    <<>>   \* ''
    }

DigitRowVariants == {
    <<"1", ",", "Q">>,   \* '1,Q'
    <<"Q", ",", "Q", ",", "B">>,   \* 'Q,Q,B'
    <<"1", ",", " ", "Q", " ", "R", " ", ",", "B", ",", "E">>,   \* '1, Q R ,B,E'
    <<"1", ",", "Q", ",", "B", ",", "E", ",", "Q">>,   \* '1,Q,B,E,Q'
    <<"1", ",", "Q", ",", "B", ",", "E", ",", "2", "5", "6">>,   \* '1,Q,B,E,256'
    <<"1", ",", "Q", ",", "B", ",", ",", "0">>,   \* '1,Q,B,,0'
    <<>>   \* ''
    }

FrequencyVariants == {<<"Q">>, <<>>}

RateCountVariants(r) == {<<"0">>, <<"Q">>, Dec(r + 1)}

RateRowVariants == {
    <<"Q", ",", "2">>,   \* 'Q,2'
    <<"9">>,   \* '9'
    <<"9", ",", "Q">>,   \* '9,Q'
    <<"9", ",", "0">>,   \* '9,0'
    <<"9", ",", "-", "1">>,   \* '9,-1'
    <<"9", ",", "3">>,   \* '9,3'
    <<"9", ",", "1", ",", "5">>,   \* '9,1,5'
    <<>>   \* ''
    }

TimeVariants == {
    <<"Q">>,   \* 'Q'
    <<"U">>,   \* 'U'
    <<" ", "U", ",", "W", " ">>,   \* ' U,W '
    <<"U", ",", "V", ",", "W">>,   \* 'U,V,W'
    <<>>   \* ''
    }

TimeFactorVariants == {<<>>, <<"Q">>, <<SP>>, <<"3">>}

\* what follows the time-factor line: nothing, an empty last line, a line that
\* does not split into two fields, a time-code line that ends the document
OptionalVariants == {
    <<>>,
    << <<>> >>,
    << <<"L", ",", "L", ",", "L">> >>,
    << <<"L">>, <<>> >>,
    << <<"-", "4", "t", ",", "L">> >>
    }

\* the shapes that differ from sh in one line
Variants(sh) ==
    LET a == Len(sh.arows)
        d == Len(sh.drows)
        r == Len(sh.rrows)
    IN  {[sh EXCEPT !.hdr = v] : v \in HeaderVariants}
        \cup {[sh EXCEPT !.cnt = v] : v \in CountVariants(a, d)}
        \cup {[sh EXCEPT !.arows[i] = v] : i \in 1..a, v \in AnalogRowVariants}
        \cup {[sh EXCEPT !.drows[j] = v] : j \in 1..d, v \in DigitRowVariants}
        \cup {[sh EXCEPT !.freq = v] : v \in FrequencyVariants}
        \cup {[sh EXCEPT !.nr = v] : v \in RateCountVariants(r)}
        \cup {[sh EXCEPT !.rrows[1] = v] : v \in RateRowVariants}
        \cup {[sh EXCEPT !.st = v] : v \in TimeVariants}
        \cup {[sh EXCEPT !.tr = v] : v \in TimeVariants}
        \cup {[sh EXCEPT !.tf = v] : v \in TimeFactorVariants}
        \cup {[sh EXCEPT !.opt = v] : v \in OptionalVariants}

\* the proper non-empty prefixes of a document
Prefixes(ls) == {SubSeq(ls, 1, n) : n \in 1..(Len(ls) - 1)}

DocSet ==
    {Build(sh) : sh \in BaseShapes}
    \cup UNION {{Build(v) : v \in Variants(sh)} : sh \in BaseShapes}
    \cup UNION {Prefixes(Build(sh)) : sh \in BaseShapes}


\* the documents given to a CFG that has been read before: well-formed ones and
\* ones that fail at different places
ReDocs ==
    LET b == Base(1, 1, 1, FALSE)
        c == Base(MaxA, 0, 2, FALSE)
    IN  {Build(b), Build(c),
         Build([c EXCEPT !.opt = << <<>> >>]),
         Build([b EXCEPT !.hdr = <<"S">>]),
         Build([b EXCEPT !.cnt = CountLine(<<"2">>, <<"1">>, <<"1", "D">>)]),
         Build([b EXCEPT !.arows[1] = <<"1", ",", "L", ",", "B", ",", ",", "Q", ",", "Q", ",", "1", ",", "0", ",", "-", "9", ",", "9">>]),
         Build([b EXCEPT !.rrows[1] = <<"9", ",", "Q">>]),
         Build([b EXCEPT !.tr = <<"Q">>]),
         SubSeq(Build(b), 1, 3)}

-----------------------------------------------------------------------------
(* ReadDAT and GetAnalogChannelData *)

\* ioutil.ReadAll returns a slice whose backing array has at least this many bytes
ReadAllCap == 512

\* the byte at 1-based position p of every data buffer of the model
DatByte(p) == (p * 37 + 11) % 256

DatSet == {[p \in 1..n |-> DatByte(p)] : n \in 0..MaxBuf}

\* ReadDAT: the content is stored as read
ReadDAT(c, content) == [c EXCEPT !.DataFileContent = content]

ErrNoData == "not data content, read .dat first"
ErrNoAnalog == "invalid analog channel"
ErrTooGreat == "analog channel number greater than the total number of channels"
ErrTooSmall == "analog channel number cannot be less than 1"
ErrNoDigit == "invalid digital channel"
ErrNoSample == "invalid or not enough sample detail"
ErrEOF == "unexpected EOF"

NoCall == [called |-> FALSE, num |-> 0, status |-> NoErr, result |-> <<>>]
Out(num, status, result) ==
    [called |-> TRUE, num |-> num, status |-> status, result |-> result]

\* int(math.Ceil(float64(d) / float64(16)))
Ceil16(d) == (d + 15) \div 16

\* RecordBytes without the digital words
RecordBytesAnalogOnly(c) == 8 + c.AnalogDetail.ChannelTotal * 2

\* Number of bytes per Sample
RecordBytes(c) ==
    8 + c.AnalogDetail.ChannelTotal * 2 + Ceil16(c.DigitDetail.ChannelTotal) * 2

\* the 0-based byte k of the backing array of DataFileContent: the content, then
\* the zero bytes of the allocation up to the capacity
BackingByte(c, k) ==
    IF k < Len(c.DataFileContent) THEN c.DataFileContent[k + 1] ELSE 0

\* int16 of the two little-endian bytes lo, hi
Int16LE(lo, hi) ==
    LET u == lo + 256 * hi IN IF u >= 32768 THEN u - 65536 ELSE u

\* y = factorA * x + factorB
Calibrate(raw, a, b) == raw * a + b

\* the loop of GetAnalogChannelData from iteration i on, with the result so far
RECURSIVE ExtractLoop(_, _, _, _, _)
ExtractLoop(c, cap, num, i, result) ==
    LET NB == RecordBytes(c)
        factor == c.AnalogDetail.ConversionFactors
        \* s := dataFileContent[i*NB : i*NB+NB]; value from s[8:]
        value == [j \in 1..((NB - 8) \div 2) |->
                    Int16LE(BackingByte(c, i * NB + 8 + 2 * (j - 1)),
                            BackingByte(c, i * NB + 8 + 2 * (j - 1) + 1))]
    IN  IF i >= c.SampleDetail[1].Number THEN Out(num, NoErr, result)
        ELSE IF i * NB + NB > cap THEN Out(num, Panic, <<>>)
        ELSE IF num > Len(value) \/ num > Len(factor.a) \/ num > Len(factor.b)
             THEN Out(num, Panic, <<>>)
        ELSE ExtractLoop(c, cap, num, i + 1,
                         Append(result, Calibrate(value[num], factor.a[num], factor.b[num])))

\* GetAnalogChannelData(num) on the CFG c whose data slice has capacity cap
GetAnalogChannelData(c, cap, num) ==
    IF c.DataFileContent = <<>> THEN Out(num, ErrNoData, <<>>)
    ELSE IF c.AnalogDetail.isNil THEN Out(num, ErrNoAnalog, <<>>)
    ELSE IF num > c.AnalogDetail.ChannelTotal THEN Out(num, ErrTooGreat, <<>>)
    ELSE IF num < 1 THEN Out(num, ErrTooSmall, <<>>)
    ELSE IF c.DigitDetail.isNil THEN Out(num, ErrNoDigit, <<>>)
    ELSE IF Len(c.SampleDetail) = 0 THEN Out(num, ErrNoSample, <<>>)
    ELSE ExtractLoop(c, cap, num, 0, <<>>)

-----------------------------------------------------------------------------
(* The state machine: a caller that owns one CFG value *)

\* a panic ends the program
Running == err # Panic /\ got.status # Panic

Init ==
    /\ cfg = NewCFG
    /\ err = "unread"
    /\ lines = <<>>
    /\ reads = 0
    /\ dcap = 0
    /\ got = NoCall

\* cfg.ReadCFG(rd) with a reader that yields the document d
DoReadCFG(d) ==
    /\ Running
    /\ reads < MaxReads
    /\ \E r \in {ReadCFG(cfg, d)} : cfg' = r.cfg /\ err' = r.err
    /\ lines' = d
    /\ reads' = reads + 1
    /\ got' = NoCall
    /\ UNCHANGED dcap

\* cfg.ReadDAT(rd) with a reader that yields content
DoReadDAT(content) ==
    /\ Running
    /\ cfg' = ReadDAT(cfg, content)
    /\ dcap' = IF Len(content) > ReadAllCap THEN Len(content) ELSE ReadAllCap
    /\ got' = NoCall
    /\ UNCHANGED <<err, lines, reads>>

\* cfg.DataFileContent = content, by a caller that holds the bytes already:
\* a slice of exactly that many bytes
DoSetDataFileContent(content) ==
    /\ Running
    /\ cfg' = [cfg EXCEPT !.DataFileContent = content]
    /\ dcap' = Len(content)
    /\ got' = NoCall
    /\ UNCHANGED <<err, lines, reads>>

\* cfg.GetAnalogChannelData(num)
DoGetAnalogChannelData(num) ==
    /\ Running
    /\ got' = GetAnalogChannelData(cfg, dcap, num)
    /\ UNCHANGED <<cfg, err, lines, reads, dcap>>

\* The decoder: ReadCFG calls on one CFG value, the first with any document
DocsFor(n) == IF n = 0 THEN DocSet ELSE ReDocs

Next == \E d \in DocsFor(reads) : DoReadCFG(d)

Spec == Init /\ [][Next]_vars

\* The extractor: one document decoded, then data loaded and channels extracted
ExtractDocs ==
    LET bases == {Base(a, d, 1, FALSE) : a \in 0..MaxA, d \in 0..MaxD}
    IN  {Build(sh) : sh \in bases}
        \cup {Build([sh EXCEPT !.rrows[1] = v]) : sh \in bases,
                v \in {<<"9", ",", "0">>, <<"9", ",", "-", "1">>, <<"9", ",", "3">>}}
        \cup {Build([sh EXCEPT !.cnt = CountLine(<<"3">>, <<"3", "A">>, <<"0", "D">>)]) : sh \in bases}

NextExtract ==
    \/ \E d \in ExtractDocs : reads = 0 /\ DoReadCFG(d)
    \/ \E content \in DatSet : DoReadDAT(content)
    \/ \E content \in DatSet : DoSetDataFileContent(content)
    \/ \E num \in 0..(MaxA + 1) : DoGetAnalogChannelData(num)

SpecExtract == Init /\ [][NextExtract]_vars

-----------------------------------------------------------------------------
(* Claims about the extractor, checked under SpecExtract *)

\* the record size as the specification states it: 8 + 2*A + 2*ceil(D/16)
SpecNB(A, D) == 8 + 2 * A + 2 * ((D \div 16) + (IF D % 16 = 0 THEN 0 ELSE 1))

\* the signed 16-bit little-endian integer at 0-based byte offset off of content
SpecRaw(content, off) ==
    IF content[off + 2] >= 128
    THEN content[off + 1] + 256 * content[off + 2] - 65536
    ELSE content[off + 1] + 256 * content[off + 2]

\* the first sample-rate entry's count (0 when there is no entry)
FirstCount == IF Len(cfg.SampleDetail) = 0 THEN 0 ELSE cfg.SampleDetail[1].Number

CfgNB == SpecNB(cfg.AnalogDetail.ChannelTotal, cfg.DigitDetail.ChannelTotal)

\* GetAnalogChannelData was called with a valid channel number on a decoded
\* configuration
ValidCall ==
    /\ got.called
    /\ err = NoErr
    /\ got.num >= 1
    /\ got.num <= cfg.AnalogDetail.ChannelTotal

\* the call succeeded with exactly N values, value i being raw_i * a + b
CalibratedResult ==
    /\ got.status = NoErr
    /\ Len(got.result) = FirstCount
    /\ \A i \in 0..(FirstCount - 1) :
          got.result[i + 1] =
              SpecRaw(cfg.DataFileContent, i * CfgNB + 8 + 2 * (got.num - 1))
                  * cfg.AnalogDetail.ConversionFactors.a[got.num]
                  + cfg.AnalogDetail.ConversionFactors.b[got.num]

\* C1 as stated: with a valid channel number and a data buffer of at least N*NB
\* bytes, GetAnalogChannelData succeeds and returns the N calibrated values
C1_AsStated ==
    (ValidCall /\ Len(cfg.DataFileContent) >= FirstCount * CfgNB) => CalibratedResult

\* C1 (amended): with a valid channel number, a count N >= 0 and a non-empty data
\* buffer of at least N*NB bytes, GetAnalogChannelData succeeds and returns exactly
\* N values, value i being raw_i * factorA[c-1] + factorB[c-1] with raw_i the signed
\* 16-bit little-endian integer at byte offset i*NB + 8 + 2*(c-1)
C1_Extracts ==
    (/\ ValidCall
     /\ FirstCount >= 0
     /\ cfg.DataFileContent # <<>>
     /\ Len(cfg.DataFileContent) >= FirstCount * CfgNB) => CalibratedResult

\* C1 witness: two records of a configuration with two analog channels and a
\* digital word were extracted for channel 2, one of the values from a negative raw
C1_Witness ==
    /\ ValidCall
    /\ FirstCount = 2
    /\ got.num = 2
    /\ cfg.DigitDetail.ChannelTotal = 1
    /\ Len(cfg.DataFileContent) >= FirstCount * CfgNB
    /\ CalibratedResult
    /\ \E i \in 0..1 : SpecRaw(cfg.DataFileContent, i * CfgNB + 10) < 0

\* C2: with N >= 1, a valid channel number and a non-empty data buffer shorter than
\* N*NB bytes, GetAnalogChannelData returns an error and no values: no short or
\* padded sequence, no abort
C2_TruncatedIsError ==
    (/\ ValidCall
     /\ FirstCount >= 1
     /\ cfg.DataFileContent # <<>>
     /\ Len(cfg.DataFileContent) < FirstCount * CfgNB)
    => (got.status \notin {NoErr, Panic} /\ got.result = <<>>)

-----------------------------------------------------------------------------
(* Claims about the decoder, checked under Spec *)

\* the comma fields of the 0-based line k of a document
FieldsOf(ls, k) == Split(LineAt(ls, k), COMMA)

\* the analog and digital totals the second line declares
DeclaredA(ls) == ParseUint(TrimSuffix(TrimSpace(FieldsOf(ls, 1)[2]), "A"), 16)
DeclaredD(ls) == ParseUint(TrimSuffix(TrimSpace(FieldsOf(ls, 1)[3]), "D"), 16)

CountsParsed(ls) ==
    /\ Len(ls) >= 2
    /\ Len(FieldsOf(ls, 1)) >= 3
    /\ DeclaredA(ls).ok
    /\ DeclaredD(ls).ok

\* the number of channel rows the second line declares
ChannelLines(ls) == DeclaredA(ls).v + DeclaredD(ls).v

\* the rate count the rate-count line declares (0 standing for 1)
DeclaredRates(ls) == ParseUint(TrimSpace(FieldsOf(ls, 3 + ChannelLines(ls))[1]), 16)

RatesParsed(ls) ==
    /\ CountsParsed(ls)
    /\ Len(ls) > 3 + ChannelLines(ls)
    /\ DeclaredRates(ls).ok

\* the 0-based index of the last mandatory line, from the counts the document
\* declares as far as they parse
LastMandatory(ls) ==
    IF ~CountsParsed(ls) THEN 1
    ELSE IF ~RatesParsed(ls) THEN 3 + ChannelLines(ls)
    ELSE 7 + ChannelLines(ls)
           + (IF DeclaredRates(ls).v = 0 THEN 1 ELSE DeclaredRates(ls).v)

\* C3: a document with fewer lines than a mandatory line's index needs makes
\* ReadCFG return an error value; the call never runs past the line list
C3_TruncatedIsError ==
    (reads > 0 /\ Len(lines) <= LastMandatory(lines)) => err \in ErrorValues

\* the mandatory lines of a well-formed document
Mandatory(sh) == Build([sh EXCEPT !.opt = <<>>])

\* the document is well formed up to the time-factor line, and either ends there
\* or goes on with a line that does not split into two comma fields
NoTimeCodeLine(ls) ==
    \E sh \in BaseShapes :
        /\ Len(ls) >= Len(Mandatory(sh))
        /\ SubSeq(ls, 1, Len(Mandatory(sh))) = Mandatory(sh)
        /\ \/ Len(ls) = Len(Mandatory(sh))
           \/ Len(FieldsOf(ls, Len(Mandatory(sh)))) # 2

\* C4: on a fresh CFG, a well-formed document without a two-field time-code line
\* decodes without error and leaves TimeCode and LocalCode empty
C4_OptionalLineOptional ==
    (reads = 1 /\ NoTimeCodeLine(lines))
    => (err = NoErr /\ cfg.TimeCode = <<>> /\ cfg.LocalCode = <<>>)

\* C5: after a successful ReadCFG the total channel count is the analog total
\* plus the digital total
C5_TotalIsSum ==
    err = NoErr =>
        cfg.ChannelNumber = cfg.AnalogDetail.ChannelTotal + cfg.DigitDetail.ChannelTotal

\* a name with its white space trimmed first and its inner spaces then replaced
TrimThenUnderscore(field) ==
    [i \in 1..Len(TrimSpace(field)) |->
        IF TrimSpace(field)[i] = SP THEN "_" ELSE TrimSpace(field)[i]]

\* C6: every stored analog and digital channel name is the row's name field
\* trimmed first, its inner spaces then replaced by underscores
C6_NameTrimmedFirst ==
    (reads = 1 /\ err = NoErr) =>
        /\ \A i \in 1..cfg.AnalogDetail.ChannelTotal :
              cfg.AnalogDetail.ChannelNames[i]
                  = TrimThenUnderscore(FieldsOf(lines, 1 + i)[2])
        /\ \A j \in 1..cfg.DigitDetail.ChannelTotal :
              cfg.DigitDetail.ChannelNames[j]
                  = TrimThenUnderscore(
                        FieldsOf(lines, 1 + cfg.AnalogDetail.ChannelTotal + j)[2])

\* the first line has its two fields and, when it has a third, a revision year
FirstLineWellFormed(ls) ==
    /\ Len(FieldsOf(ls, 0)) >= 2
    /\ Len(FieldsOf(ls, 0)) > 2 => ParseUint(TrimSpace(FieldsOf(ls, 0)[3]), 16).ok

\* the second line has its analog and digital tokens, one of them without its tag
TagMissing(ls) ==
    /\ Len(ls) >= 2
    /\ Len(FieldsOf(ls, 1)) >= 3
    /\ \/ ~Contains(FieldsOf(ls, 1)[2], "A")
       \/ ~Contains(FieldsOf(ls, 1)[3], "D")

\* C7 as stated: a missing tag yields the missing-tag error whatever the other
\* fields of the second line hold
C7_AsStated ==
    (reads > 0 /\ FirstLineWellFormed(lines) /\ TagMissing(lines))
    => err = ErrMissingTag

\* C7 (amended): with a well-formed first line and a second line of at least three
\* fields whose total-count field parses as an unsigned 16-bit number, a missing
\* 'A' or 'D' tag makes ReadCFG fail with the missing-tag error and no other
C7_MissingTag ==
    (/\ reads > 0
     /\ FirstLineWellFormed(lines)
     /\ TagMissing(lines)
     /\ ParseUint(TrimSpace(FieldsOf(lines, 1)[1]), 16).ok)
    => err = ErrMissingTag

\* C7 witness: a second line with the 'D' tag and without the 'A' tag was refused
\* with the missing-tag error
C7_Witness ==
    /\ reads > 0
    /\ FirstLineWellFormed(lines)
    /\ TagMissing(lines)
    /\ Contains(FieldsOf(lines, 1)[3], "D")
    /\ ParseUint(TrimSpace(FieldsOf(lines, 1)[1]), 16).ok
    /\ err = ErrMissingTag

\* the rate-count line of the document reads n (one character)
RateCountReads(ls, n) ==
    /\ CountsParsed(ls)
    /\ Len(ls) > 3 + ChannelLines(ls)
    /\ LineAt(ls, 3 + ChannelLines(ls)) = <<n>>

\* the document with its rate-count line changed from 0 to 1 or from 1 to 0
Twin(ls) ==
    [ls EXCEPT ![4 + ChannelLines(ls)] = IF @ = <<"0">> THEN <<"1">> ELSE <<"0">>]

\* C8: a document whose rate-count line reads 0 or 1 is decoded on a fresh CFG
\* to the same error and the same configuration as its twin
C8_ZeroIsOne ==
    (reads = 1 /\ (RateCountReads(lines, "0") \/ RateCountReads(lines, "1")))
    => ReadCFG(NewCFG, Twin(lines)) = [cfg |-> cfg, err |-> err]

\* C8 witness: a document declaring 0 rates was decoded with SampleRateNum = 1,
\* one rate entry and the later lines (here the time code) in place
C8_Witness ==
    /\ reads = 1
    /\ RateCountReads(lines, "0")
    /\ err = NoErr
    /\ cfg.SampleRateNum = 1
    /\ cfg.SampleDetail = <<[Rate |-> 9, Number |-> 2]>>
    /\ cfg.TimeCode = <<"+", "1", "h">>

\* C9: a ReadCFG call that returns an error leaves the CFG as it was: empty when
\* it was fresh, unchanged when it held a decoded configuration
C9_NoPartialConfiguration ==
    [][(reads' = reads + 1 /\ err' \in ErrorValues) => cfg' = cfg]_vars

\* C10: after a successful ReadCFG every mandatory analog sequence has the analog
\* total's length, every digital sequence the digital total's, with "" for an
\* absent element and 2 for an absent initial state, and no optional analog
\* sequence is longer than the analog total
C10_SequenceLengths ==
    err = NoErr =>
        LET a == cfg.AnalogDetail
            d == cfg.DigitDetail
        IN  /\ Len(a.ChannelNumber) = a.ChannelTotal
            /\ Len(a.ChannelNames) = a.ChannelTotal
            /\ Len(a.ChannelPhases) = a.ChannelTotal
            /\ Len(a.ChannelElements) = a.ChannelTotal
            /\ Len(a.ChannelUnits) = a.ChannelTotal
            /\ Len(a.ConversionFactors.a) = a.ChannelTotal
            /\ Len(a.ConversionFactors.b) = a.ChannelTotal
            /\ Len(a.TimeFactors) = a.ChannelTotal
            /\ Len(a.ValueMin) = a.ChannelTotal
            /\ Len(a.ValueMax) = a.ChannelTotal
            /\ Len(d.ChannelNumber) = d.ChannelTotal
            /\ Len(d.ChannelNames) = d.ChannelTotal
            /\ Len(d.ChannelPhases) = d.ChannelTotal
            /\ Len(d.ChannelElements) = d.ChannelTotal
            /\ Len(d.InitialState) = d.ChannelTotal
            /\ \A j \in 1..d.ChannelTotal :
                  /\ Len(FieldsOf(lines, 1 + a.ChannelTotal + j)) <= 3
                        => d.ChannelElements[j] = <<>>
                  /\ Len(FieldsOf(lines, 1 + a.ChannelTotal + j)) <= 4
                        => d.InitialState[j] = 2
            /\ Len(a.Primary) <= a.ChannelTotal
            /\ Len(a.Secondary) <= a.ChannelTotal
            /\ Len(a.IsSecondaryMeasurement) <= a.ChannelTotal

\* C10 witness: two analog rows, one of them with the optional columns, and a
\* digital row of three fields were decoded
C10_Witness ==
    /\ err = NoErr
    /\ cfg.AnalogDetail.ChannelTotal = 2
    /\ Len(cfg.AnalogDetail.ValueMax) = 2
    /\ Len(cfg.AnalogDetail.Primary) = 1
    /\ cfg.DigitDetail.ChannelTotal = 1
    /\ cfg.DigitDetail.ChannelElements = << <<>> >>
    /\ cfg.DigitDetail.InitialState = <<2>>

\* the first sample-rate row of a document whose channel totals were decoded into c
FirstRateEntry(c, ls) ==
    LET t == FieldsOf(ls, 4 + c.AnalogDetail.ChannelTotal + c.DigitDetail.ChannelTotal)
    IN  [Rate |-> ParseFloat(ByteToString(t[1])).v,
         Number |-> ParseFloat(ByteToString(t[2])).v]

\* C11: after any sequence of ReadCFG calls on one CFG, when the last call
\* succeeded SampleDetail has SampleRateNum entries and its first entry is the
\* first rate row of the last document
C11_LastDocumentOnly ==
    (reads > 0 /\ err = NoErr) =>
        /\ Len(cfg.SampleDetail) = cfg.SampleRateNum
        /\ cfg.SampleDetail[1] = FirstRateEntry(cfg, lines)

=============================================================================
